---- MODULE Spec2Model ----
(***************************************************************************)
(* Model of the product-publishing pipeline of the CraftConnect backend:  *)
(* the POST /upload-product route of the Shopify router with its helpers  *)
(* uploadImageToShopify and createShopifyProduct.                          *)
(*                                                                         *)
(* JavaScript strings are TLA+ strings; the string operations of the code *)
(* (startsWith, replace, split, substring, JSON.stringify) are computed   *)
(* character by character with Len, SubSeq and \o.                        *)
(***************************************************************************)
EXTENDS Integers, Sequences, FiniteSets, TLC

VARIABLES
    inbox,            \* publish requests the client has yet to send, in order
    pc,               \* position of the route handler
    req,              \* req.body of the request being handled
    i,                \* loop index of the image loop (0-based, as in the code)
    imageUrls,        \* the handler's local list of uploaded image URLs
    imageError,       \* message of the error caught for the current image ("" if none)
    outcomes,         \* per image, what the handler logged: uploaded or failed
    requests,         \* remote requests issued by the current publish, in order
    sent,             \* product payloads posted to the product endpoint by the current publish
    productResponse,  \* the product endpoint's answer to the current publish
    session,          \* req.session of the caller
    response,         \* the HTTP response written by the current publish
    uploadResponse,   \* the asset endpoint's answer for the current image
    filename,         \* filename of the image this publish has in flight ("" if none)
    now,              \* Date.now(), in milliseconds
    peerFilename,     \* filename of the image a concurrently running publish has in flight
    peerImageUrls,    \* the imageUrls list of the concurrently running publish
    aborted,          \* the caller closed the connection of the current publish
    silent,           \* the remote partners that never answer
    activity,         \* the session's activity arrays and the last activity request served
    client            \* the call of a frontend API wrapper that is under way

vars == <<inbox, pc, req, i, imageUrls, imageError, outcomes, requests, sent,
          productResponse, session, response, uploadResponse, filename, now, peerFilename,
          peerImageUrls, aborted, silent, activity, client>>

(***************************************************************************)
(* Bounds of the model.                                                    *)
(***************************************************************************)
MaxImages == 3

MaxPublishes == 2

MaxClock == 2

MaxLiveImages == 2

MaxRequests == 3

(***************************************************************************)
(* String helpers (String.prototype methods).                              *)
(***************************************************************************)
Min(a, b) == IF a <= b THEN a ELSE b

StartsWith(s, p) == Len(s) >= Len(p) /\ SubSeq(s, 1, Len(p)) = p

EndsWith(s, p) == Len(s) >= Len(p) /\ SubSeq(s, Len(s) - Len(p) + 1, Len(s)) = p

\* 1-based position of the first occurrence of p in s, 0 when there is none
IndexOf(s, p) ==
    LET ks == {k \in 1..(Len(s) - Len(p) + 1) : SubSeq(s, k, k + Len(p) - 1) = p}
    IN  IF ks = {} THEN 0 ELSE CHOOSE k \in ks : \A m \in ks : k <= m

\* s.replace(pat, rep) with a string pattern: the first occurrence only
StringReplace(s, pat, rep) ==
    LET k == IndexOf(s, pat)
    IN  IF k = 0 THEN s
        ELSE SubSeq(s, 1, k - 1) \o rep \o SubSeq(s, k + Len(pat), Len(s))

\* the truncation left out
Substring0Untruncated(s, n) == s

\* s.substring(0, n)
Substring0(s, n) == SubSeq(s, 1, Min(n, Len(s)))

\* s.split(',')[1] is undefined when s holds no comma
HasSecondPart(s) == IndexOf(s, ",") # 0

DigitStr(k) == SubSeq("0123456789", k + 1, k + 1)

(***************************************************************************)
(* JSON.stringify on the values a 422 body carries under "errors": a       *)
(* string, or an object whose members are arrays of message strings.       *)
(* An object is the sequence of its members in insertion order.            *)
(***************************************************************************)
RECURSIVE JsonEscape(_)
JsonEscape(s) ==
    IF Len(s) = 0 THEN ""
    ELSE LET c == SubSeq(s, 1, 1)
         IN  (IF c = "\"" THEN "\\\""
              ELSE IF c = "\\" THEN "\\\\"
              ELSE c) \o JsonEscape(SubSeq(s, 2, Len(s)))

JsonQuote(s) == "\"" \o JsonEscape(s) \o "\""

RECURSIVE JsonJoin(_)
\* the parts separated by commas
JsonJoin(parts) ==
    IF Len(parts) = 0 THEN ""
    ELSE IF Len(parts) = 1 THEN parts[1]
    ELSE parts[1] \o "," \o JsonJoin(Tail(parts))

JsonArray(msgs) == "[" \o JsonJoin([k \in 1..Len(msgs) |-> JsonQuote(msgs[k])]) \o "]"

JsonMember(m) == JsonQuote(m.field) \o ":" \o JsonArray(m.messages)

JSONstringify(v) ==
    IF v.type = "string" THEN JsonQuote(v.text)
    ELSE "{" \o JsonJoin([k \in 1..Len(v.members) |-> JsonMember(v.members[k])]) \o "}"

(***************************************************************************)
(* URL handling of the route and its helpers.                              *)
(***************************************************************************)
\* public_url.replace('http://', 'https://')
HttpsUrl(public_url) == StringReplace(public_url, "http://", "https://")

\* the last URL lost by an off-by-one in the mapping
HttpsImageUrlsShort(urls) ==
    [k \in 1..(Len(urls) - 1) |-> StringReplace(urls[k], "http://", "https://")]

\* imageUrls.map(url => url.replace('http://', 'https://'))
HttpsImageUrls(urls) == [k \in 1..Len(urls) |-> StringReplace(urls[k], "http://", "https://")]

\* only the secure prefix stripped: shopUrl.replace(/^https:\/\//, '')
StripSchemeSecureOnly(shopUrl) ==
    IF StartsWith(shopUrl, "https://") THEN SubSeq(shopUrl, 9, Len(shopUrl)) ELSE shopUrl

\* shopUrl.replace(/^https?:\/\//, '')
StripScheme(shopUrl) ==
    IF StartsWith(shopUrl, "https://") THEN SubSeq(shopUrl, 9, Len(shopUrl))
    ELSE IF StartsWith(shopUrl, "http://") THEN SubSeq(shopUrl, 8, Len(shopUrl))
    ELSE shopUrl

UploadApiUrl(shopUrl) == "https://" \o shopUrl \o "/admin/api/2023-10/uploads.json"

ProductApiUrl(shopUrl) == "https://" \o shopUrl \o "/admin/api/2023-10/products.json"

(***************************************************************************)
(* uploadImageToShopify: what the helper returns or throws for a response  *)
(* of the asset endpoint.  status 0 is a request that got no response      *)
(* (timeout, network error); message is the message of the axios error.    *)
(***************************************************************************)
UploadThrows(msg) == [success |-> FALSE, publicUrl |-> "", error |-> msg]

\* a catch that reports every failure alike
UploadCatchGeneric(status, message) == "Shopify upload failed: " \o message

\* the catch of uploadImageToShopify: the message it throws for error.response?.status
\* and error.message (status 0: the error carries no response)
UploadCatch(status, message) ==
    IF status = 401 THEN "Invalid Shopify access token"
    ELSE IF status = 422 THEN "Invalid image data or format"
    ELSE "Shopify upload failed: " \o message

\* every 2xx answer taken as a success
UploadImageToShopifyUnchecked(resp) ==
    IF resp.status \in 200..299
    THEN [success |-> TRUE, publicUrl |-> HttpsUrl(resp.public_url), error |-> ""]
    ELSE UploadThrows(UploadCatch(resp.status, resp.message))

UploadImageToShopify(resp) ==
    IF resp.status \in 200..299
    THEN IF resp.upload
         THEN IF resp.hasUrl
              THEN [success |-> TRUE, publicUrl |-> HttpsUrl(resp.public_url), error |-> ""]
              ELSE UploadThrows(UploadCatch(0, "Cannot read properties of undefined (reading 'replace')"))
         ELSE UploadThrows(UploadCatch(0, "Invalid response from Shopify upload API"))
    ELSE UploadThrows(UploadCatch(resp.status, resp.message))

(***************************************************************************)
(* createShopifyProduct: the payload it posts and what it returns or       *)
(* throws for a response of the product endpoint.                          *)
(***************************************************************************)
MetaDescriptionLength == 160

\* a || b on strings: undefined and '' are falsy
OrElse(a, b) == IF a = "" THEN b ELSE a

\* a product published live unless the caller says otherwise
StatusOfDefaultsActive(productData) == OrElse(productData.status, "active")

\* status: productData.status || 'draft'
StatusOf(productData) == OrElse(productData.status, "draft")

\* the variant taken over from the request's own fields
InventoryPolicyFromRequest(productData) == OrElse(productData.inventory_policy, "deny")

\* inventory_policy: 'deny'
InventoryPolicy(productData) == "deny"

\* inventory_management: 'shopify'
InventoryManagement(productData) == "shopify"

ProductPayload(productData, urls) ==
    [title                |-> productData.title,
     body_html            |-> productData.description,
     vendor               |-> OrElse(productData.vendor, "CraftConnect"),
     product_type         |-> OrElse(productData.productType, "Handmade"),
     status               |-> StatusOf(productData),
     price                |-> ToString(productData.price),
     inventory_quantity   |-> IF productData.inventory = 0 THEN 1 ELSE productData.inventory,
     inventory_management |-> InventoryManagement(productData),
     inventory_policy     |-> InventoryPolicy(productData),
     images               |-> HttpsImageUrls(urls),
     tags                 |-> OrElse(productData.tags, "handmade,craft,artisan"),
     metafields_global_title_tag       |-> productData.title,
     metafields_global_description_tag |-> Substring0(productData.description, MetaDescriptionLength)]

NoProduct == [id |-> 0, handle |-> "", title |-> "", status |-> ""]

ProductThrows(msg) ==
    [success |-> FALSE, product |-> NoProduct, productUrl |-> "", adminUrl |-> "", error |-> msg]

\* the 422 branch written as in the uploader: the remote errors are dropped
CreateShopifyProductDropsErrors(resp, shopUrl) ==
    IF resp.status \in 200..299
    THEN IF resp.hasProduct
         THEN [success    |-> TRUE,
               product    |-> resp.product,
               productUrl |-> "https://" \o shopUrl \o "/products/" \o resp.product.handle,
               adminUrl   |-> "https://" \o shopUrl \o "/admin/products/" \o ToString(resp.product.id),
               error      |-> ""]
         ELSE ProductThrows("Shopify product creation failed: Invalid response from Shopify product creation API")
    ELSE IF resp.status = 401 THEN ProductThrows("Invalid Shopify access token")
    ELSE IF resp.status = 422 THEN ProductThrows("Product validation failed")
    ELSE ProductThrows("Shopify product creation failed: " \o resp.message)

CreateShopifyProduct(resp, shopUrl) ==
    IF resp.status \in 200..299
    THEN IF resp.hasProduct
         THEN [success    |-> TRUE,
               product    |-> resp.product,
               productUrl |-> "https://" \o shopUrl \o "/products/" \o resp.product.handle,
               adminUrl   |-> "https://" \o shopUrl \o "/admin/products/" \o ToString(resp.product.id),
               error      |-> ""]
         ELSE ProductThrows("Shopify product creation failed: Invalid response from Shopify product creation API")
    ELSE IF resp.status = 401 THEN ProductThrows("Invalid Shopify access token")
    ELSE IF resp.status = 422
         THEN ProductThrows("Product validation failed: " \o
                            (IF resp.hasErrors THEN JSONstringify(resp.errors) ELSE "undefined"))
    ELSE ProductThrows("Shopify product creation failed: " \o resp.message)

(***************************************************************************)
(* validateProductData and the validation middleware.  isURL of the        *)
(* validator library: an optional protocol out of http, https and ftp     *)
(* (compared in lower case), then a host without blanks that has a dot.   *)
(***************************************************************************)
RECURSIVE ToLowerCase(_)
ToLowerCase(s) ==
    IF Len(s) = 0 THEN ""
    ELSE LET c == SubSeq(s, 1, 1)
             k == IndexOf("ABCDEFGHIJKLMNOPQRSTUVWXYZ", c)
         IN  (IF k = 0 THEN c ELSE SubSeq("abcdefghijklmnopqrstuvwxyz", k, k))
             \o ToLowerCase(SubSeq(s, 2, Len(s)))

IsURL(s) ==
    LET k    == IndexOf(s, "://")
        host == IF k = 0 THEN s ELSE SubSeq(s, k + 3, Len(s))
    IN  /\ k # 0 => ToLowerCase(SubSeq(s, 1, k - 1)) \in {"http", "https", "ftp"}
        /\ Len(host) > 0
        /\ IndexOf(host, " ") = 0
        /\ IndexOf(host, ".") > 1
        /\ IndexOf(host, "://") = 0

\* the chain without the check of the access token
ValidationErrorsNoToken(body) ==
    (IF body.title = "" THEN <<"Product title is required">> ELSE <<>>)
    \o (IF body.description = "" THEN <<"Product description is required">> ELSE <<>>)
    \o (IF body.price < 0 THEN <<"Price must be a positive number">> ELSE <<>>)
    \o (IF ~IsURL(body.shopUrl) THEN <<"Shop URL must be valid">> ELSE <<>>)

ValidationErrors(body) ==
    (IF body.title = "" THEN <<"Product title is required">> ELSE <<>>)
    \o (IF body.description = "" THEN <<"Product description is required">> ELSE <<>>)
    \o (IF body.price < 0 THEN <<"Price must be a positive number">> ELSE <<>>)
    \o (IF ~IsURL(body.shopUrl) THEN <<"Shop URL must be valid">> ELSE <<>>)
    \o (IF body.accessToken = "" THEN <<"Access token is required">> ELSE <<>>)

(***************************************************************************)
(* The requests a client sends.                                            *)
(***************************************************************************)
DataImage   == [type |-> "string", value |-> "data:image/png;base64,iVBORw0KGgo="]
DataNoBody  == [type |-> "string", value |-> "data:image/png;base64"]
DataNoType  == [type |-> "string", value |-> "data:image/,iVBORw0KGgo="]
HttpImage   == [type |-> "string", value |-> "http://img.example/a.png"]
HttpsImage  == [type |-> "string", value |-> "https://img.example/b.png"]
OtherString == [type |-> "string", value |-> "ftp://img.example/c.png"]
RawBuffer   == [type |-> "buffer", value |-> "<bytes>"]
NotAnImage  == [type |-> "object", value |-> ""]

ImageSources == {DataImage, DataNoBody, DataNoType, HttpImage, HttpsImage, OtherString, RawBuffer, NotAnImage}

\* the sources of the batches of more than one image
BatchSources == {HttpImage, OtherString}

RECURSIVE ListsUpTo(_, _)
ListsUpTo(S, n) ==
    IF n = 0 THEN {<<>>}
    ELSE LET shorter == ListsUpTo(S, n - 1)
         IN  shorter \cup {Append(l, x) : l \in {m \in shorter : Len(m) = n - 1}, x \in S}

RECURSIVE TextFrom(_, _)
\* n characters, the one at position k being letter k modulo 10
TextFrom(a, n) ==
    IF n = 0 THEN ""
    ELSE IF n = 1 THEN SubSeq("abcdefghij", ((a - 1) % 10) + 1, ((a - 1) % 10) + 1)
    ELSE TextFrom(a, n \div 2) \o TextFrom(a + (n \div 2), n - (n \div 2))

\* a text of n characters in which neighbouring characters differ
Text(n) == TextFrom(1, n)

MaxDescriptionLength == 170

Descriptions ==
    {Text(n) : n \in {1, MetaDescriptionLength - 1, MetaDescriptionLength,
                      MetaDescriptionLength + 1, MaxDescriptionLength}}

ShopHost == "craft.myshopify.com"

ShopUrls == {ShopHost, "http://" \o ShopHost, "https://" \o ShopHost,
             "HTTP://" \o ShopHost, "ftp://" \o ShopHost}

BaseRequest ==
    [title |-> "Clay Vase", description |-> "Hand-thrown clay vase", price |-> 25,
     shopUrl |-> ShopHost, accessToken |-> "shpat_1", images |-> <<>>,
     keys |-> {}, vendor |-> "", productType |-> "", tags |-> "", status |-> "",
     inventory |-> 0, inventory_policy |-> "", inventory_management |-> ""]

BatchRequests ==
    {[BaseRequest EXCEPT !.images = l] : l \in ListsUpTo(BatchSources, MaxImages)}

SourceRequests == {[BaseRequest EXCEPT !.images = <<s>>] : s \in ImageSources}

FieldRequests ==
    {[BaseRequest EXCEPT !.shopUrl = u, !.description = d, !.images = <<DataImage>>] :
        u \in ShopUrls, d \in Descriptions}

OptionRequests ==
    {[BaseRequest EXCEPT !.keys = {"status"}, !.status = "active"],
     [BaseRequest EXCEPT !.keys = {"inventory"}, !.inventory = 0],
     [BaseRequest EXCEPT !.keys = {"inventory"}, !.inventory = 5],
     [BaseRequest EXCEPT !.keys = {"vendor", "productType", "tags"}, !.vendor = "Dha",
                         !.productType = "Pottery", !.tags = "clay"],
     [BaseRequest EXCEPT !.keys = {"status"}, !.status = "archived"],
     [BaseRequest EXCEPT !.keys = {"status"}, !.status = "draft"],
     [BaseRequest EXCEPT !.keys = {"inventory_policy", "inventory_management"},
                         !.inventory_policy = "continue", !.inventory_management = "none"]}

InvalidRequests ==
    {[BaseRequest EXCEPT !.title = ""],
     [BaseRequest EXCEPT !.description = ""],
     [BaseRequest EXCEPT !.price = -1],
     [BaseRequest EXCEPT !.shopUrl = "not a url"],
     [BaseRequest EXCEPT !.accessToken = ""]}

Requests == BatchRequests \cup SourceRequests \cup FieldRequests \cup OptionRequests
            \cup InvalidRequests

\* the requests of the sessions that publish more than once
SessionRequests ==
    {BaseRequest, [BaseRequest EXCEPT !.images = <<DataImage>>],
     [BaseRequest EXCEPT !.title = ""]}

Inboxes ==
    {<<r>> : r \in Requests}
    \cup {l \in ListsUpTo(SessionRequests, MaxPublishes) : Len(l) > 1}

(***************************************************************************)
(* The answers of the remote platform.                                     *)
(***************************************************************************)
\* the public_url the asset endpoint assigns to image number k
PublicUrls(k) ==
    {scheme \o "cdn.shopify.com/p" \o DigitStr(k) \o ".jpg" :
        scheme \in {"http://", "https://", "HTTP://", "//", "ftp://"}}
    \cup {scheme \o "cdn.shopify.com/r?u=http://o/p" \o DigitStr(k) \o ".jpg" :
            scheme \in {"http://", "https://"}}

UploadFailure(status, msg) ==
    [status |-> status, upload |-> FALSE, hasUrl |-> FALSE, public_url |-> "", message |-> msg]

\* the remote partners of a publish
Partners == {"fetch", "upload", "product"}

\* timeout: 15000 of axios.get(image)
FetchTimeout == 15000

\* timeout: 30000 of the upload
UploadTimeout == 30000

\* timeout: 30000 of the product creation
ProductTimeout == 30000

\* the message of the axios error of a request that ran into its timeout
TimeoutMessage(ms) == "timeout of " \o ToString(ms) \o "ms exceeded"

\* a call made without a timeout: it ends when the partner answers
CallOutcomesNoTimeout(partner, answers, ms, expired) ==
    IF partner \in silent THEN {} ELSE answers

\* how a call to a partner can end: with one of its answers unless the partner
\* is silent, or by its timeout (axios: a timeout of 0 is no timeout)
CallOutcomes(partner, answers, ms, expired) ==
    (IF partner \in silent THEN {} ELSE answers)
    \cup (IF ms > 0 THEN {expired} ELSE {})

\* the download of an image: the bytes (""), or the message of the error
FetchOutcomes ==
    CallOutcomes("fetch", {"", "Request failed with status code 404"},
                 FetchTimeout, TimeoutMessage(FetchTimeout))

UploadAnswers(k) ==
    {[status |-> 200, upload |-> TRUE, hasUrl |-> TRUE, public_url |-> u, message |-> ""] :
        u \in PublicUrls(k)}
    \cup {[status |-> 200, upload |-> TRUE, hasUrl |-> FALSE, public_url |-> "", message |-> ""],
          UploadFailure(200, ""),
          UploadFailure(401, "Request failed with status code 401"),
          UploadFailure(422, "Request failed with status code 422"),
          UploadFailure(500, "Request failed with status code 500")}

UploadResponses(k) ==
    CallOutcomes("upload", UploadAnswers(k), UploadTimeout,
                 UploadFailure(0, TimeoutMessage(UploadTimeout)))

NoUploadResponse == UploadFailure(0, "")

NoErrors == [type |-> "object", members |-> <<>>, text |-> ""]

ErrorObject(members) == [type |-> "object", members |-> members, text |-> ""]

ErrorBodies ==
    {ErrorObject(<<[field |-> "title", messages |-> <<"can't be blank">>]>>),
     ErrorObject(<<[field |-> "title", messages |-> <<"can't be blank">>],
                   [field |-> "price", messages |-> <<"must be \"0\" or more", "a\\b">>]>>),
     ErrorObject(<<[field |-> "base", messages |-> <<"a", "b">>]>>),
     ErrorObject(<<[field |-> "base", messages |-> <<"a\",\"b">>]>>),
     NoErrors,
     [type |-> "string", members |-> <<>>, text |-> "Not Found"]}

ProductFailure(status, msg) ==
    [status |-> status, hasProduct |-> FALSE, product |-> NoProduct,
     hasErrors |-> FALSE, errors |-> NoErrors, message |-> msg]

NoProductResponse == ProductFailure(0, "")

\* the answers of the product endpoint to a payload, the n-th product of the shop
ProductAnswers(payload, n) ==
    {[status |-> 201, hasProduct |-> TRUE,
      product |-> [id |-> 7000 + n, handle |-> "clay-vase", title |-> payload.title,
                   status |-> payload.status],
      hasErrors |-> FALSE, errors |-> NoErrors, message |-> ""],
     ProductFailure(200, ""),
     ProductFailure(401, "Request failed with status code 401"),
     ProductFailure(422, "Request failed with status code 422"),
     ProductFailure(500, "Request failed with status code 500")}
    \cup {[status |-> 422, hasProduct |-> FALSE, product |-> NoProduct, hasErrors |-> TRUE,
           errors |-> e, message |-> "Request failed with status code 422"] : e \in ErrorBodies}

ProductResponses(payload, n) ==
    CallOutcomes("product", ProductAnswers(payload, n), ProductTimeout,
                 ProductFailure(0, TimeoutMessage(ProductTimeout)))

(***************************************************************************)
(* The route handler of POST /upload-product.                              *)
(***************************************************************************)
NoRequest == [BaseRequest EXCEPT !.title = "", !.description = "", !.price = 0,
                                 !.shopUrl = "", !.accessToken = ""]

NoResponse ==
    [status |-> 0, success |-> FALSE, error |-> "", message |-> "", errors |-> <<>>,
     product |-> NoProduct, productUrl |-> "", adminUrl |-> "", imageUrls |-> <<>>,
     imageCount |-> 0]

\* res.status(400).json(...) of the validation middleware
ValidationResponse(errs) ==
    [NoResponse EXCEPT !.status = 400, !.error = "Validation Error", !.errors = errs]

\* res.status(500).json(...) of the handler's catch
ErrorResponse(msg) ==
    [NoResponse EXCEPT !.status = 500, !.error = "Shopify Upload Failed", !.message = msg]

\* res.json(...) of a publish that succeeded
SuccessResponse(productResult, urls) ==
    [NoResponse EXCEPT !.status = 200, !.success = TRUE,
                       !.message = "Product uploaded to Shopify successfully",
                       !.product = productResult.product,
                       !.productUrl = productResult.productUrl,
                       !.adminUrl = productResult.adminUrl,
                       !.imageUrls = urls, !.imageCount = Len(urls)]

Failed == [ok |-> FALSE, public_url |-> ""]

Uploaded(public_url) == [ok |-> TRUE, public_url |-> public_url]

\* imageUrls.unshift(url)
PushFront(list, url) == <<url>> \o list

\* imageUrls.push(url)
Push(list, url) == Append(list, url)

\* one imageUrls array for all handlers
PushToShared(handler, lists, url) == [h \in DOMAIN lists |-> Push(lists[h], url)]

\* let imageUrls = [] is a local of the handler: a push reaches the list of the
\* invocation that pushes, and no other
PushTo(handler, lists, url) == [lists EXCEPT ![handler] = Push(@, url)]

\* the loop without its try/catch: the error reaches the handler's catch
ImageCatchRethrows(msg) ==
    [pc |-> "done", i |-> i, imageError |-> msg, response |-> ErrorResponse(msg)]

\* the same image tried again after a failure
ImageCatchRetries(msg) ==
    [pc |-> "loop", i |-> i, imageError |-> msg, response |-> response]

\* the catch of the image loop: log the error and go on with the next image
ImageCatch(msg) ==
    [pc |-> "loop", i |-> i + 1, imageError |-> msg, response |-> response]

\* req.session.shopifyUploads.push(...) after creating the array when it is missing
\* (the entry's timestamp, new Date(), is left out: no clock is modelled)
SessionPush(sess, productResult, urls) ==
    [sess EXCEPT !.keys = @ \cup {"shopifyUploads"},
                 !.shopifyUploads = Append(@, [productId |-> productResult.product.id,
                                               title     |-> productResult.product.title,
                                               imageUrls |-> urls])]

\* the outcome recorded before the result is looked at
FinishAlwaysRecords(productResult, sess, urls) ==
    IF productResult.success
    THEN [session  |-> SessionPush(sess, productResult, urls),
          response |-> SuccessResponse(productResult, urls)]
    ELSE [session  |-> SessionPush(sess, productResult, urls),
          response |-> ErrorResponse(productResult.error)]

\* a product without images refused
FinishRequiresImages(productResult, sess, urls) ==
    IF productResult.success /\ Len(urls) > 0
    THEN [session  |-> SessionPush(sess, productResult, urls),
          response |-> SuccessResponse(productResult, urls)]
    ELSE [session  |-> sess,
          response |-> ErrorResponse(IF productResult.success THEN "No images uploaded"
                                     ELSE productResult.error)]

\* what the handler does with the result of createShopifyProduct
Finish(productResult, sess, urls) ==
    IF productResult.success
    THEN [session  |-> SessionPush(sess, productResult, urls),
          response |-> SuccessResponse(productResult, urls)]
    ELSE [session |-> sess, response |-> ErrorResponse(productResult.error)]

\* the loop left after its first image
LoopFinishedEarly(idx, images) == idx >= 1 \/ idx >= Len(images)

\* the end of for (let i = 0; i < images.length; i++)
LoopFinished(idx, images) == idx >= Len(images)

\* `product_image_${i + 1}_${Date.now()}.jpg`
Filename(index, time) ==
    "product_image_" \o ToString(index) \o "_" \o ToString(time) \o ".jpg"

\* position of the last occurrence of p in s, 0 when there is none
LastIndexOf(s, p) ==
    LET ks == {k \in 1..(Len(s) - Len(p) + 1) : SubSeq(s, k, k + Len(p) - 1) = p}
    IN  IF ks = {} THEN 0 ELSE CHOOSE k \in ks : \A m \in ks : m <= k

\* filename.replace(/\.[^/.]+$/, ".jpg")
EnsureJpg(name) ==
    LET k == LastIndexOf(name, ".")
    IN  IF k = 0 \/ k = Len(name) \/ IndexOf(SubSeq(name, k + 1, Len(name)), "/") # 0
        THEN name
        ELSE SubSeq(name, 1, k - 1) \o ".jpg"

\* the ensureSession middleware of the router
EnsureSession(sess) ==
    IF "initialized" \in sess.keys
    THEN [sess EXCEPT !.keys = @ \cup {"lastAccess"}]
    ELSE [sess EXCEPT !.keys = @ \cup {"initialized", "createdAt", "uploads", "analyses",
                                       "quotations", "whatsappMessages", "lastAccess"}]

SessionArrays == {"uploads", "analyses", "quotations", "whatsappMessages", "shopifyUploads",
                  "facebookPosts", "productEnhancements"}

\* the initialisation block of getSession and updateSession
InitializeSession(sess) ==
    IF "initialized" \in sess.keys
    THEN sess
    ELSE [keys |-> sess.keys \cup {"initialized", "createdAt", "businessData",
                                   "userPreferences"} \cup SessionArrays,
          shopifyUploads |-> <<>>]

\* sessionController.getSession
GetSessionEffect(sess) ==
    [InitializeSession(sess) EXCEPT !.keys = @ \cup {"lastAccess"}]

AllowedUpdates == {"businessData", "userPreferences"} \cup SessionArrays

\* sessionController.updateSession: every allowed key of the body is assigned
UpdateSessionEffect(sess, body) ==
    LET initialized == InitializeSession(sess)
        updated     == body.keys \cap AllowedUpdates
    IN  [keys |-> initialized.keys \cup updated \cup {"lastAccess"},
         shopifyUploads |-> IF "shopifyUploads" \in updated THEN body.shopifyUploads
                            ELSE initialized.shopifyUploads]

\* the bodies of the session updates a client sends
UpdateBodies ==
    {[keys |-> {}, shopifyUploads |-> <<>>],
     [keys |-> {"businessData"}, shopifyUploads |-> <<>>],
     [keys |-> {"initialized"}, shopifyUploads |-> <<>>],
     [keys |-> {"shopifyUploads"}, shopifyUploads |-> <<>>]}

(***************************************************************************)
(* The activity routes of the router and the arrays they keep in the       *)
(* session.  An array that is not a key of the session is undefined.       *)
(***************************************************************************)
ActivityRoutes ==
    {"analyze-business", "generate-whatsapp-message", "generate-quotation", "upload-image"}

\* the array a route pushes to
ArrayOf(route) ==
    CASE route = "analyze-business"          -> "analyses"
      [] route = "generate-whatsapp-message" -> "whatsappMessages"
      [] route = "generate-quotation"        -> "quotations"
      [] route = "upload-image"              -> "uploads"

ActivityArrays == {ArrayOf(route) : route \in ActivityRoutes}

NoActivity ==
    [arrays |-> [a \in ActivityArrays |-> <<>>],
     served |-> 0,
     last   |-> [route |-> "", controller |-> "", status |-> 0, error |-> ""]]

\* a route after ensureSession: the request is rejected with a 400, or the
\* controller is awaited and its result pushed; every throw ends in the catch
ActivityRoute(route, accepted, controller, sess, arrays) ==
    IF ~accepted
    THEN [arrays |-> arrays, status |-> 400, error |-> "Bad Request"]
    ELSE IF controller # "ok"
    THEN [arrays |-> arrays, status |-> 500, error |-> controller]
    ELSE IF ArrayOf(route) \notin sess.keys
    THEN [arrays |-> arrays, status |-> 500,
          error  |-> "Cannot read properties of undefined (reading 'push')"]
    ELSE [arrays |-> [arrays EXCEPT ![ArrayOf(route)] =
                         Append(@, [route |-> route, timestamp |-> now])],
          status |-> 200, error |-> ""]

\* app.post('/api/session') of the server
PostSessionEffect(sess) ==
    [sess EXCEPT !.keys = @ \cup {"initialized", "createdAt", "lastAccess"}]

(***************************************************************************)
(* The frontend API client: the request interceptor that establishes the   *)
(* session, the response interceptor, and the exported wrappers.           *)
(***************************************************************************)
Wrappers == {"analyzeBusinessAudio", "uploadToShopify", "getSession", "generateRecommendations"}

\* how fetch(`${API_URL}/api/session`) and the reading of its body can end
SessionChecks == {"ok", "not ok", "rejected", "invalid JSON"}

\* how the HTTP call of apiClient can end; dataMessage and dataError are the
\* message and error members of an error body, "" when it has none
HttpResponse(status, body, dataMessage, dataError) ==
    [kind |-> "response", status |-> status, body |-> body,
     dataMessage |-> dataMessage, dataError |-> dataError,
     message |-> IF status \in 200..299 THEN ""
                 ELSE "Request failed with status code " \o ToString(status)]

HttpFailure(kind, message) ==
    [kind |-> kind, status |-> 0, body |-> "", dataMessage |-> "", dataError |-> "",
     message |-> message]

HttpOutcomes ==
    {HttpResponse(200, "envelope", "", ""), HttpResponse(200, "null", "", ""),
     HttpResponse(400, "", "", "Validation Error"), HttpResponse(400, "", "", ""),
     HttpResponse(401, "", "", ""), HttpResponse(403, "", "", ""),
     HttpResponse(404, "", "", ""), HttpResponse(429, "", "Too many requests", ""),
     HttpResponse(500, "", "boom", "Analysis Failed"), HttpResponse(503, "", "", ""),
     HttpFailure("network", "Network Error"),
     HttpFailure("timeout", "timeout of 60000ms exceeded")}

NoOutcome == HttpFailure("", "")

\* the call did not give a 2xx response
HttpFailed(outcome) == ~(outcome.kind = "response" /\ outcome.status \in 200..299)

\* an interceptor that lets the failure of the session call through
RequestInterceptorStrict(sessionCheck) ==
    IF sessionCheck \in {"rejected", "invalid JSON"} THEN "rejected" ELSE "config"

\* the request interceptor: whatever the session call gave, the config is returned
RequestInterceptor(sessionCheck) == "config"

\* error.userMessage of the response interceptor
UserMessage(outcome) ==
    IF outcome.kind # "response"
    THEN "Network error - please check your connection and server status"
    ELSE IF outcome.status >= 500 THEN "Server error - please try again later"
    ELSE IF outcome.status = 404 THEN "Service not found - please contact support"
    ELSE IF outcome.status = 401 THEN "Authentication required - please refresh the page"
    ELSE IF outcome.status = 403 THEN "Access denied - insufficient permissions"
    ELSE OrElse(outcome.dataMessage, OrElse(outcome.dataError, "Request failed"))

Resolved(success, error) == [settled |-> "resolved", success |-> success, error |-> error]

Rejected(error) == [settled |-> "rejected", success |-> FALSE, error |-> error]

NoResult == [settled |-> "", success |-> FALSE, error |-> ""]

\* a wrapper without its try/catch
WrapperCatchRethrows(wrapper, userMessage, message) == Rejected(OrElse(userMessage, message))

\* the catch of a wrapper: error.userMessage || error.message as a value;
\* generateRecommendations catches the error it throws when getSession failed
WrapperCatch(wrapper, userMessage, message) ==
    IF wrapper = "generateRecommendations"
    THEN Resolved(FALSE, "Failed to get session data")
    ELSE Resolved(FALSE, OrElse(userMessage, message))

\* what the promise of a wrapper settles to for an outcome of its HTTP call
WrapperResult(wrapper, outcome) ==
    IF HttpFailed(outcome)
    THEN WrapperCatch(wrapper, UserMessage(outcome), outcome.message)
    ELSE IF outcome.body = "null"
    THEN WrapperCatch(wrapper, "", "Cannot read properties of null (reading 'data')")
    ELSE Resolved(TRUE, "")

NoCall ==
    [pc |-> "idle", wrapper |-> "", sessionCheck |-> "", sent |-> FALSE,
     outcome |-> NoOutcome, result |-> NoResult]

\* the state before the first request, with the partners that stay silent
Start(quiet) ==
    /\ inbox \in Inboxes
    /\ pc = "idle"
    /\ req = NoRequest
    /\ i = 0
    /\ imageUrls = <<>>
    /\ imageError = ""
    /\ outcomes = <<>>
    /\ requests = <<>>
    /\ sent = <<>>
    /\ productResponse = NoProductResponse
    /\ session = [keys |-> {}, shopifyUploads |-> <<>>]
    /\ response = NoResponse
    /\ uploadResponse = NoUploadResponse
    /\ filename = ""
    /\ now = 0
    /\ peerFilename = ""
    /\ peerImageUrls = <<>>
    /\ aborted = FALSE
    /\ silent = quiet
    /\ activity = NoActivity
    /\ client = NoCall

Init == Start({})

\* a request arrives: ensureSession, the validation middleware, then the start
\* of the handler
Receive ==
    /\ pc \in {"idle", "done"}
    /\ Len(inbox) > 0
    /\ LET body == Head(inbox)
           errs == ValidationErrors(body)
       IN  /\ inbox' = Tail(inbox)
           /\ req' = body
           /\ i' = 0
           /\ imageUrls' = <<>>
           /\ imageError' = ""
           /\ outcomes' = <<>>
           /\ requests' = <<>>
           /\ sent' = <<>>
           /\ productResponse' = NoProductResponse
           /\ uploadResponse' = NoUploadResponse
           /\ filename' = ""
           /\ IF Len(errs) > 0
              THEN pc' = "done" /\ response' = ValidationResponse(errs)
              ELSE pc' = "loop" /\ response' = NoResponse
           /\ session' = EnsureSession(session)
           /\ aborted' = FALSE
           /\ UNCHANGED <<now, peerFilename, peerImageUrls, silent, activity, client>>

\* an error thrown while image i is handled
ImageFailed(msg) ==
    LET c == ImageCatch(msg)
    IN  /\ pc' = c.pc
        /\ i' = c.i
        /\ imageError' = c.imageError
        /\ response' = c.response
        /\ outcomes' = Append(outcomes, Failed)
        /\ filename' = ""
        /\ UNCHANGED <<inbox, req, imageUrls, sent, productResponse, session, now, peerFilename,
                       peerImageUrls, aborted, silent, activity, client>>

\* the image bytes are at hand: processImageForShopify is called with the filename
StartProcessing ==
    /\ pc' = "processing"
    /\ imageError' = ""
    /\ filename' = Filename(i + 1, now)
    /\ UNCHANGED <<inbox, req, i, imageUrls, outcomes, sent, productResponse, session,
                   response, now, peerFilename,
                   peerImageUrls, aborted, silent, activity, client>>

\* the start of an iteration: the image is decoded, or its download is started
NextImage ==
    /\ pc = "loop"
    /\ ~LoopFinished(i, req.images)
    /\ uploadResponse' = NoUploadResponse
    /\ LET image == req.images[i + 1]
       IN  IF image.type = "string"
           THEN IF StartsWith(image.value, "data:image/")
                THEN IF HasSecondPart(image.value)
                     THEN StartProcessing /\ UNCHANGED requests
                     ELSE /\ ImageFailed("The first argument must be of type string or an instance of Buffer")
                          /\ UNCHANGED requests
                ELSE IF StartsWith(image.value, "http://") \/ StartsWith(image.value, "https://")
                THEN /\ pc' = "fetching"
                     /\ imageError' = ""
                     /\ requests' = Append(requests, [kind |-> "fetch", url |-> image.value,
                                                      image |-> i + 1])
                     /\ UNCHANGED <<inbox, req, i, imageUrls, outcomes, sent, productResponse,
                                    session, response, filename, now, peerFilename,
                                    peerImageUrls, aborted, silent, activity, client>>
                ELSE /\ ImageFailed("Invalid image format")
                     /\ UNCHANGED requests
           ELSE IF image.type = "buffer"
           THEN StartProcessing /\ UNCHANGED requests
           ELSE /\ ImageFailed("Unsupported image type")
                /\ UNCHANGED requests

\* axios.get(image) returns or fails
FetchReturn ==
    /\ pc = "fetching"
    /\ \E failure \in FetchOutcomes :
          IF failure = ""
          THEN StartProcessing /\ UNCHANGED <<requests, uploadResponse>>
          ELSE /\ ImageFailed(failure)
               /\ UNCHANGED <<requests, uploadResponse>>

\* processImageForShopify returns or throws; on return the upload is started
ProcessReturn ==
    /\ pc = "processing"
    /\ \E ok \in BOOLEAN :
          IF ok
          THEN /\ pc' = "uploading"
               /\ filename' = EnsureJpg(filename)
               /\ requests' = Append(requests, [kind  |-> "upload",
                                                url   |-> UploadApiUrl(StripScheme(req.shopUrl)),
                                                image |-> i + 1])
               /\ UNCHANGED <<inbox, req, i, imageUrls, imageError, outcomes, sent,
                              productResponse, session, response, uploadResponse, now,
                              peerFilename,
                              peerImageUrls, aborted, silent, activity, client>>
          ELSE /\ ImageFailed("Image processing failed: Input buffer contains unsupported image format")
               /\ UNCHANGED <<requests, uploadResponse>>

\* the asset endpoint answers: uploadImageToShopify returns or throws
UploadReturn ==
    /\ pc = "uploading"
    /\ \E resp \in UploadResponses(i + 1) :
          LET uploadResult == UploadImageToShopify(resp)
          IN  /\ uploadResponse' = resp
              /\ IF uploadResult.success
                 THEN /\ LET lists == PushTo("own", [own |-> imageUrls, peer |-> peerImageUrls],
                                             uploadResult.publicUrl)
                         IN  imageUrls' = lists.own /\ peerImageUrls' = lists.peer
                      /\ outcomes' = Append(outcomes, Uploaded(resp.public_url))
                      /\ i' = i + 1
                      /\ pc' = "loop"
                      /\ filename' = ""
                      /\ UNCHANGED <<inbox, req, imageError, requests, sent, productResponse,
                                     session, response, now, peerFilename, aborted, silent, activity, client>>
                 ELSE /\ ImageFailed(uploadResult.error)
                      /\ UNCHANGED requests

\* after the loop: createShopifyProduct posts the payload
CreateProduct ==
    /\ pc = "loop"
    /\ LoopFinished(i, req.images)
    /\ pc' = "creating"
    /\ imageError' = ""
    /\ uploadResponse' = NoUploadResponse
    /\ sent' = Append(sent, ProductPayload(req, imageUrls))
    /\ requests' = Append(requests, [kind  |-> "product",
                                     url   |-> ProductApiUrl(StripScheme(req.shopUrl)),
                                     image |-> 0])
    /\ UNCHANGED <<inbox, req, i, imageUrls, outcomes, productResponse, session, response,
                   filename, now, peerFilename,
                   peerImageUrls, aborted, silent, activity, client>>

\* the product endpoint answers: the outcome is recorded and the response written
CreateReturn ==
    /\ pc = "creating"
    /\ \E resp \in ProductResponses(sent[Len(sent)], Len(session.shopifyUploads) + 1) :
          LET productResult == CreateShopifyProduct(resp, StripScheme(req.shopUrl))
              f == Finish(productResult, session, imageUrls)
          IN  /\ productResponse' = resp
              /\ session' = f.session
              /\ response' = f.response
              /\ pc' = "done"
              /\ UNCHANGED <<inbox, req, i, imageUrls, imageError, outcomes, requests, sent,
                             uploadResponse, filename, now, peerFilename,
                             peerImageUrls, aborted, silent, activity, client>>

Next ==
    \/ Receive
    \/ NextImage
    \/ FetchReturn
    \/ ProcessReturn
    \/ UploadReturn
    \/ CreateProduct
    \/ CreateReturn

\* the publishes of one client, one at a time, within one reading of the clock
Spec == Init /\ [][Next]_vars

(***************************************************************************)
(* The other operations of the session controller on the caller's session, *)
(* between two publishes.                                                  *)
(***************************************************************************)
\* GET /session, behind ensureSession
GetSession ==
    /\ pc \in {"idle", "done"}
    /\ session' = GetSessionEffect(EnsureSession(session))
    /\ UNCHANGED <<inbox, pc, req, i, imageUrls, imageError, outcomes, requests, sent,
                   productResponse, response, uploadResponse, filename, now, peerFilename,
                   peerImageUrls, aborted, silent, activity, client>>

\* sessionController.updateSession with a body
UpdateSession ==
    /\ pc \in {"idle", "done"}
    /\ \E body \in UpdateBodies : session' = UpdateSessionEffect(session, body)
    /\ UNCHANGED <<inbox, pc, req, i, imageUrls, imageError, outcomes, requests, sent,
                   productResponse, response, uploadResponse, filename, now, peerFilename,
                   peerImageUrls, aborted, silent, activity, client>>

InitSession ==
    /\ Init
    /\ \A k \in 1..Len(inbox) : inbox[k] \in SessionRequests \cup SourceRequests

NextSession == Next \/ GetSession \/ UpdateSession

\* the publishes of one client together with its session requests
SpecSession == InitSession /\ [][NextSession]_vars

(***************************************************************************)
(* A second publish running at the same time: the clock advances, and the  *)
(* other handler names the images it has in flight with the same code.     *)
(***************************************************************************)
Tick ==
    /\ now < MaxClock
    /\ now' = now + 1
    /\ UNCHANGED <<inbox, pc, req, i, imageUrls, imageError, outcomes, requests, sent,
                   productResponse, session, response, uploadResponse, filename, peerFilename,
                   peerImageUrls, aborted, silent, activity, client>>

\* the other publish starts to process its image number k
PeerNamesImage ==
    /\ peerFilename = ""
    /\ Len(peerImageUrls) < MaxImages
    /\ \E k \in 1..MaxImages : peerFilename' = EnsureJpg(Filename(k, now))
    /\ UNCHANGED <<inbox, pc, req, i, imageUrls, imageError, outcomes, requests, sent,
                   productResponse, session, response, uploadResponse, filename, now,
                   peerImageUrls, aborted, silent, activity, client>>

\* the public_url the asset endpoint gives the n-th upload of the other publish
PeerUrl(n) == "https://cdn.shopify.com/q" \o DigitStr(n) \o ".jpg"

\* the other publish is done with its image: the upload failed, or its URL is pushed
PeerImageDone ==
    /\ peerFilename # ""
    /\ peerFilename' = ""
    /\ \E ok \in BOOLEAN :
          IF ok
          THEN LET lists == PushTo("peer", [own |-> imageUrls, peer |-> peerImageUrls],
                                   PeerUrl(Len(peerImageUrls) + 1))
               IN  imageUrls' = lists.own /\ peerImageUrls' = lists.peer
          ELSE UNCHANGED <<imageUrls, peerImageUrls>>
    /\ UNCHANGED <<inbox, pc, req, i, imageError, outcomes, requests, sent,
                   productResponse, session, response, uploadResponse, filename, now,
                   aborted, silent, activity, client>>

(***************************************************************************)
(* The requests of a client's session other than publishes.                *)
(***************************************************************************)
\* POST /api/session, answered by the server before the router is reached
PostSession ==
    /\ session' = PostSessionEffect(session)
    /\ UNCHANGED <<inbox, pc, req, i, imageUrls, imageError, outcomes, requests, sent,
                   productResponse, response, uploadResponse, filename, now, peerFilename,
                   peerImageUrls, aborted, silent, activity, client>>

\* a request to one of the activity routes, behind ensureSession
Activity ==
    /\ activity.served < MaxRequests
    /\ \E route \in ActivityRoutes, accepted \in BOOLEAN,
          controller \in {"ok", "Service unavailable"} :
          LET sess   == EnsureSession(session)
              result == ActivityRoute(route, accepted, controller, sess, activity.arrays)
          IN  /\ session' = sess
              /\ activity' = [arrays |-> result.arrays,
                              served |-> activity.served + 1,
                              last   |-> [route      |-> route,
                                          controller |-> IF accepted THEN controller ELSE "",
                                          status     |-> result.status,
                                          error      |-> result.error]]
    /\ UNCHANGED <<inbox, pc, req, i, imageUrls, imageError, outcomes, requests, sent,
                   productResponse, response, uploadResponse, filename, now, peerFilename,
                   peerImageUrls, aborted, silent, client>>

\* no publish is served meanwhile: the one in the inbox stays there
InitActivity ==
    /\ Init
    /\ inbox = <<BaseRequest>>

NextActivity == PostSession \/ GetSession \/ Activity

\* the session of a client that uses the activity routes
SpecActivity == InitActivity /\ [][NextActivity]_vars

(***************************************************************************)
(* The calls of the frontend, one at a time.                               *)
(***************************************************************************)
\* a wrapper is called: the request interceptor starts the session call
ClientCall ==
    /\ client.pc \in {"idle", "settled"}
    /\ \E wrapper \in Wrappers :
          client' = [NoCall EXCEPT !.pc = "session", !.wrapper = wrapper]
    /\ UNCHANGED <<inbox, pc, req, i, imageUrls, imageError, outcomes, requests, sent,
                   productResponse, session, response, uploadResponse, filename, now,
                   peerFilename, peerImageUrls, aborted, silent, activity>>

\* the session call ends: the interceptor returns and the request is sent
SessionCheckReturn ==
    /\ client.pc = "session"
    /\ \E sessionCheck \in SessionChecks :
          IF RequestInterceptor(sessionCheck) = "config"
          THEN client' = [client EXCEPT !.pc = "request", !.sessionCheck = sessionCheck,
                                        !.sent = TRUE]
          ELSE client' = [client EXCEPT !.pc = "settled", !.sessionCheck = sessionCheck,
                                        !.result = WrapperCatch(client.wrapper, "",
                                                                "Failed to fetch")]
    /\ UNCHANGED <<inbox, pc, req, i, imageUrls, imageError, outcomes, requests, sent,
                   productResponse, session, response, uploadResponse, filename, now,
                   peerFilename, peerImageUrls, aborted, silent, activity>>

\* the HTTP call ends: response interceptor, then the wrapper's return or catch
HttpReturn ==
    /\ client.pc = "request"
    /\ \E outcome \in HttpOutcomes :
          client' = [client EXCEPT !.pc = "settled", !.outcome = outcome,
                                   !.result = WrapperResult(client.wrapper, outcome)]
    /\ UNCHANGED <<inbox, pc, req, i, imageUrls, imageError, outcomes, requests, sent,
                   productResponse, session, response, uploadResponse, filename, now,
                   peerFilename, peerImageUrls, aborted, silent, activity>>

\* no publish is served meanwhile: the one in the inbox stays there
InitClient ==
    /\ Init
    /\ inbox = <<BaseRequest>>

NextClient == ClientCall \/ SessionCheckReturn \/ HttpReturn

\* the frontend's calls of its API wrappers
SpecClient == InitClient /\ [][NextClient]_vars

(***************************************************************************)
(* One publish whose partners may never answer.  The handler's own steps   *)
(* are taken by the event loop, and every pending call ends as soon as one *)
(* of its outcomes is possible.                                            *)
(***************************************************************************)
InitLive ==
    \E quiet \in SUBSET Partners :
        /\ Start(quiet)
        /\ Len(inbox) = 1
        /\ inbox[1] \in BatchRequests \cup SourceRequests \cup InvalidRequests
        /\ Len(inbox[1].images) <= MaxLiveImages

Fairness ==
    /\ WF_vars(Receive)
    /\ WF_vars(NextImage)
    /\ WF_vars(FetchReturn)
    /\ WF_vars(ProcessReturn)
    /\ WF_vars(UploadReturn)
    /\ WF_vars(CreateProduct)
    /\ WF_vars(CreateReturn)

SpecLive == InitLive /\ [][Next]_vars /\ Fairness

(***************************************************************************)
(* The caller closes the connection while the handler runs.  The handler   *)
(* registers no listener for it and tests nothing before its next step.    *)
(***************************************************************************)
Abort ==
    /\ pc \notin {"idle", "done"}
    /\ ~aborted
    /\ aborted' = TRUE
    /\ UNCHANGED <<inbox, pc, req, i, imageUrls, imageError, outcomes, requests, sent,
                   productResponse, session, response, uploadResponse, filename, now,
                   peerFilename, peerImageUrls, silent, activity, client>>

InitAbort ==
    /\ Init
    /\ Len(inbox) = 1

NextAbort == Next \/ Abort

\* one publish that its caller may abort
SpecAbort == InitAbort /\ [][NextAbort]_vars

InitConcurrent ==
    /\ Init
    /\ Len(inbox) = 1
    /\ inbox[1] \in SourceRequests

NextConcurrent == Next \/ Tick \/ PeerNamesImage \/ PeerImageDone

\* one publish of a client while another publish runs
SpecConcurrent == InitConcurrent /\ [][NextConcurrent]_vars

TypeOK ==
    /\ pc \in {"idle", "loop", "fetching", "processing", "uploading", "creating", "done"}
    /\ i \in 0..MaxImages
    /\ Len(imageUrls) <= i
    /\ Len(outcomes) = i
    /\ Len(sent) <= 1

(***************************************************************************)
(* Properties.                                                             *)
(***************************************************************************)
RECURSIVE OkIndices(_)
\* the numbers of the images logged as uploaded, in input order
OkIndices(log) ==
    IF Len(log) = 0 THEN <<>>
    ELSE LET before == OkIndices(SubSeq(log, 1, Len(log) - 1))
         IN  IF log[Len(log)].ok THEN Append(before, Len(log)) ELSE before

\* the path the asset endpoint gives the upload of image number k
ImageTag(k) == "/p" \o DigitStr(k) \o ".jpg"

\* the product endpoint created the product
ProductCreated(resp) == resp.status \in 200..299 /\ resp.hasProduct

Published == pc = "done" /\ response.status # 400

ProductRequests == SelectSeq(requests, LAMBDA r : r.kind = "product")

\* C1: the uploaded-URL list is never longer than the input list and holds,
\* in input order, exactly one URL for each source that succeeded so far
C1_OrderPreservingSubsequence ==
    LET ok == OkIndices(outcomes)
    IN  /\ Len(imageUrls) <= Len(req.images)
        /\ Len(imageUrls) = Len(ok)
        /\ \A k \in 1..Len(ok) : EndsWith(imageUrls[k], ImageTag(ok[k]))
        /\ \A k, m \in 1..Len(ok) : k < m => ok[k] < ok[m]

C1_Witness ==
    /\ Len(req.images) = 3
    /\ Len(outcomes) = 3
    /\ outcomes[1].ok /\ ~outcomes[2].ok /\ outcomes[3].ok
    /\ Len(imageUrls) = 2

\* C2: every URL returned by uploadImageToShopify for a successful upload
\* has the https scheme, whatever scheme the asset endpoint returned
C2_UploadedUrlsAreHttps ==
    \A k \in 1..Len(imageUrls) : StartsWith(imageUrls[k], "https://")

\* C3: the image list of the payload sent has one entry per successfully
\* uploaded image, in the same order, and none for a failed image
C3_PayloadImagesAreTheSuccesses ==
    \A n \in 1..Len(sent) :
        LET ok == OkIndices(outcomes)
        IN  /\ Len(outcomes) = Len(req.images)
            /\ Len(sent[n].images) = Len(ok)
            /\ \A k \in 1..Len(ok) : EndsWith(sent[n].images[k], ImageTag(ok[k]))

C3_Witness ==
    /\ Len(sent) = 1
    /\ Len(req.images) = 3
    /\ outcomes[1].ok /\ ~outcomes[2].ok /\ outcomes[3].ok
    /\ req.images[2] = HttpImage
    /\ Len(sent[1].images) = 2

\* C4: a failure of a single image never ends the publish: no response is
\* written while images are processed, every image is attempted, the product
\* request is sent, and the publish fails exactly when product creation fails
C4_ImageFailuresAreAbsorbed ==
    /\ pc \in {"loop", "fetching", "processing", "uploading", "creating"} => response = NoResponse
    /\ Published =>
          /\ Len(outcomes) = Len(req.images)
          /\ Len(sent) = 1
          /\ response.status = 500 <=> ~ProductCreated(productResponse)
          /\ response.status = 200 <=> ProductCreated(productResponse)

C4_Witness ==
    /\ Published
    /\ Len(outcomes) = 2
    /\ ~outcomes[1].ok /\ outcomes[2].ok
    /\ response.status = 200
    /\ response.imageCount = 1

\* C5: with no image, or with every image failing, the uploaded-URL list is
\* empty, the product request is still sent exactly once with an empty image
\* list, and the publish succeeds when the product endpoint accepts it
C5_EmptyBatchStillPublishes ==
    (/\ pc \in {"creating", "done"}
     /\ response.status # 400
     /\ \A k \in 1..Len(outcomes) : ~outcomes[k].ok)
    => /\ Len(imageUrls) = 0
       /\ Len(sent) = 1
       /\ Len(sent[1].images) = 0
       /\ Len(ProductRequests) = 1
       /\ (pc = "done" /\ ProductCreated(productResponse) =>
              response.status = 200 /\ response.imageCount = 0)

C5_Witness ==
    /\ Published
    /\ Len(req.images) = 2
    /\ ~outcomes[1].ok /\ ~outcomes[2].ok
    /\ Len(sent) = 1
    /\ response.status = 200

\* C6: a step appends exactly one outcome to the session's shopifyUploads when
\* it is the step in which product creation succeeds, and every other step
\* (a failed product creation included) leaves the session unchanged
C6_RecordedIffCreated ==
    [][ IF pc = "creating" /\ pc' = "done" /\ ProductCreated(productResponse')
        THEN session'.shopifyUploads =
                Append(session.shopifyUploads,
                       [productId |-> productResponse'.product.id,
                        title     |-> productResponse'.product.title,
                        imageUrls |-> imageUrls])
        ELSE session'.shopifyUploads = session.shopifyUploads ]_vars

C6_Witness ==
    /\ pc = "done"
    /\ response.status = 500
    /\ Len(imageUrls) = 1
    /\ Len(sent) = 1
    /\ Len(session.shopifyUploads) = 1

\* C7: after a 422 of the product endpoint with a body { errors: E }, the
\* message of the error response is the validation-failed text followed by the
\* JSON text of E, and no other E of the domain gives that message
C7_ValidationErrorsVerbatim ==
    (pc = "done" /\ productResponse.status = 422 /\ productResponse.hasErrors)
    => /\ response.status = 500
       /\ response.message = "Product validation failed: " \o JSONstringify(productResponse.errors)
       /\ \A e \in ErrorBodies :
             response.message = "Product validation failed: " \o JSONstringify(e)
             => e = productResponse.errors

C7_Witness ==
    /\ pc = "done"
    /\ productResponse.status = 422
    /\ productResponse.hasErrors
    /\ productResponse.errors.type = "object"
    /\ Len(productResponse.errors.members) = 2
    /\ response.status = 500

\* C8: the meta-description of the payload is the first min(160, length)
\* characters of the description and the body is the whole description
C8_MetaDescriptionTruncated ==
    \A n \in 1..Len(sent) :
        LET d    == req.description
            meta == sent[n].metafields_global_description_tag
        IN  /\ sent[n].body_html = d
            /\ Len(meta) = (IF Len(d) > 160 THEN 160 ELSE Len(d))
            /\ meta = SubSeq(d, 1, Len(meta))

C8_Witness ==
    /\ Len(sent) = 1
    /\ Len(req.description) > 160
    /\ Len(sent[1].metafields_global_description_tag) = 160
    /\ Len(sent[1].body_html) > 160

\* C9: for a shop identifier given with http://, with https:// or without
\* prefix, every asset upload and the product creation go to https://{host}/
\* with no second scheme in the URL
C9_RequestsGoToHttpsHost ==
    req.shopUrl \in {ShopHost, "http://" \o ShopHost, "https://" \o ShopHost}
    => \A k \in 1..Len(requests) :
          requests[k].kind \in {"upload", "product"}
          => /\ StartsWith(requests[k].url, "https://" \o ShopHost \o "/admin/api/")
             /\ IndexOf(SubSeq(requests[k].url, 9, Len(requests[k].url)), "://") = 0

C9_Witness ==
    /\ req.shopUrl = "http://" \o ShopHost
    /\ Len(requests) = 2
    /\ requests[1].kind = "upload"
    /\ requests[2].kind = "product"

\* C10: every URL of a successful publish result (the imageUrls returned and
\* recorded in the session, the productUrl and the adminUrl) has the https scheme
C10_VisibleUrlsAreHttps ==
    (pc = "done" /\ response.status = 200)
    => /\ StartsWith(response.productUrl, "https://")
       /\ StartsWith(response.adminUrl, "https://")
       /\ \A k \in 1..Len(response.imageUrls) : StartsWith(response.imageUrls[k], "https://")
       /\ \A n \in 1..Len(session.shopifyUploads) :
             \A k \in 1..Len(session.shopifyUploads[n].imageUrls) :
                StartsWith(session.shopifyUploads[n].imageUrls[k], "https://")

\* C11: without a status in the request the payload's status is "draft", the
\* payload's status is "active" only when the request's status is "active",
\* and vendor and product type default to "CraftConnect" and "Handmade"
C11_DraftUnlessRequested ==
    \A n \in 1..Len(sent) :
        /\ "status" \notin req.keys => sent[n].status = "draft"
        /\ sent[n].status = "active" => ("status" \in req.keys /\ req.status = "active")
        /\ "vendor" \notin req.keys => sent[n].vendor = "CraftConnect"
        /\ "vendor" \in req.keys /\ req.vendor # "" => sent[n].vendor = req.vendor
        /\ "productType" \notin req.keys => sent[n].product_type = "Handmade"
        /\ "productType" \in req.keys /\ req.productType # "" => sent[n].product_type = req.productType

C11_Witness ==
    /\ Len(sent) = 1
    /\ req.keys = {}
    /\ sent[1].status = "draft"
    /\ sent[1].vendor = "CraftConnect"
    /\ sent[1].product_type = "Handmade"

\* C12: the status of every payload sent is draft or active, whatever the
\* request's status field holds
C12_StatusIsDraftOrActive ==
    \A n \in 1..Len(sent) : sent[n].status \in {"draft", "active"}

\* C13: the variant of every payload sent has inventory policy "deny" and
\* inventory management "shopify", whatever fields the request carries
C13_InventoryPolicyFixed ==
    \A n \in 1..Len(sent) :
        /\ sent[n].inventory_policy = "deny"
        /\ sent[n].inventory_management = "shopify"

C13_Witness ==
    /\ Len(sent) = 1
    /\ req.inventory_policy = "continue"
    /\ req.inventory_management = "none"
    /\ sent[1].inventory_policy = "deny"

\* C14: the session's shopifyUploads log is append-only in arrival order: no
\* operation on a live session modifies, removes or reorders a recorded entry,
\* and a new entry is placed after all earlier ones.
C14_LogIsAppendOnly ==
    [][ /\ Len(session'.shopifyUploads) >= Len(session.shopifyUploads)
        /\ SubSeq(session'.shopifyUploads, 1, Len(session.shopifyUploads))
               = session.shopifyUploads ]_vars

\* C15: the product-creation request is issued only after every image of the
\* batch has finished, and no fetch or upload of the publish starts or
\* completes after it.
C15_ProductAfterAllImages ==
    \A n \in 1..Len(requests) :
        requests[n].kind = "product" =>
            /\ n = Len(requests)
            /\ Len(outcomes) = Len(req.images)
            /\ pc \in {"creating", "done"}

C15_Witness ==
    /\ Len(req.images) = 2
    /\ Len(requests) = 4
    /\ requests[1].kind = "fetch"
    /\ requests[3].kind = "upload"
    /\ requests[4].kind = "product"
    /\ ~outcomes[1].ok
    /\ outcomes[2].ok

\* C16: no retries: within one publish each image causes at most one fetch
\* request and at most one asset-upload request, and at most one
\* product-creation request is issued, whatever failed.
C16_NoRetries ==
    /\ \A m, n \in 1..Len(requests) :
          (requests[m].kind = requests[n].kind /\ requests[m].image = requests[n].image)
              => m = n
    /\ \A n \in 1..Len(requests) :
          requests[n].kind = "product" \/ requests[n].image \in 1..Len(req.images)

C16_Witness ==
    /\ pc = "done"
    /\ response.status = 500
    /\ Len(req.images) = 2
    /\ ~outcomes[1].ok
    /\ ~outcomes[2].ok
    /\ Len(requests) = 4
    /\ requests[1].kind = "fetch"
    /\ requests[2].kind = "upload"
    /\ requests[3].kind = "fetch"

\* a 2xx answer of the asset endpoint without upload.public_url
MalformedSuccess(resp) == resp.status \in 200..299 /\ ~(resp.upload /\ resp.hasUrl)

\* C17: a 2xx answer of the asset endpoint that lacks the success shape (no
\* upload object, or one without public_url) is a failed upload: the image is
\* logged as failed and no URL is added to the list the payload is built from.
C17_MalformedSuccessIsFailure ==
    [][ (pc = "uploading" /\ MalformedSuccess(uploadResponse'))
            => /\ imageUrls' = imageUrls
               /\ outcomes' = Append(outcomes, Failed)
               /\ pc' = "loop" ]_vars

C17_Witness ==
    /\ pc = "loop"
    /\ MalformedSuccess(uploadResponse)
    /\ uploadResponse.upload
    /\ Len(outcomes) = 2
    /\ outcomes[1].ok
    /\ ~outcomes[2].ok
    /\ Len(imageUrls) = 1

\* the three normalised failures
IsCredentialError(msg) == msg = "Invalid Shopify access token"

IsValidationError(msg) ==
    msg = "Invalid image data or format" \/ StartsWith(msg, "Product validation failed")

IsGenericError(msg, prefix, underlying) ==
    StartsWith(msg, prefix) /\ EndsWith(msg, underlying) /\ underlying # ""

\* the one normalised failure that a status stands for
NormalisedAs(status, msg, prefix, underlying) ==
    /\ IsCredentialError(msg) <=> status = 401
    /\ IsValidationError(msg) <=> status = 422
    /\ IsGenericError(msg, prefix, underlying) <=> status \notin {401, 422}

\* C18: a failure of the asset or product endpoint is normalised by status:
\* 401 gives the invalid-credential error, 422 the validation-failed error,
\* everything else a generic failure that includes the underlying message;
\* exactly one of the three holds for every failure.
C18_FailuresNormalisedByStatus ==
    /\ (uploadResponse # NoUploadResponse /\ uploadResponse.status \notin 200..299)
          => NormalisedAs(uploadResponse.status, imageError, "Shopify upload failed: ",
                          uploadResponse.message)
    /\ (uploadResponse # NoUploadResponse /\ MalformedSuccess(uploadResponse))
          => /\ StartsWith(imageError, "Shopify upload failed: ")
             /\ Len(imageError) > Len("Shopify upload failed: ")
             /\ ~IsCredentialError(imageError)
             /\ ~IsValidationError(imageError)
    /\ (pc = "done" /\ productResponse # NoProductResponse
            /\ productResponse.status \notin 200..299)
          => /\ response.status = 500
             /\ NormalisedAs(productResponse.status, response.message,
                             "Shopify product creation failed: ", productResponse.message)

C18_Witness ==
    /\ pc = "done"
    /\ productResponse.status = 500
    /\ IsGenericError(response.message, "Shopify product creation failed: ",
                      "Request failed with status code 500")
    /\ Len(outcomes) = 1
    /\ ~outcomes[1].ok

\* an inline image: data:image/<subtype>;base64,<body>
WellFormedInline(s) ==
    /\ StartsWith(s, "data:image/")
    /\ IndexOf(s, ",") # 0
    /\ LET prefix == SubSeq(s, 1, IndexOf(s, ",") - 1)
       IN  /\ EndsWith(prefix, ";base64")
           /\ Len(prefix) > Len("data:image/") + Len(";base64")

\* C19: an image gives a URL only if it is an inline data:image/ string with
\* a well-formed prefix and a body, an http:// or https:// string, or a raw
\* buffer; every other value, and every inline string with a malformed
\* prefix, is a per-image failure.
C19_OnlyAcceptedSources ==
    \A k \in 1..Len(outcomes) :
        LET image == req.images[k]
        IN  outcomes[k].ok =>
                \/ image.type = "buffer"
                \/ /\ image.type = "string"
                   /\ \/ WellFormedInline(image.value)
                      \/ StartsWith(image.value, "http://")
                      \/ StartsWith(image.value, "https://")

\* C20: two images in flight at the same time never have the same filename,
\* and every filename handed to the upload ends in .jpg.
C20_FilenamesNeverCollide ==
    /\ (filename # "" /\ peerFilename # "") => filename # peerFilename
    /\ (pc = "uploading" => EndsWith(filename, ".jpg"))
    /\ (peerFilename # "" => EndsWith(peerFilename, ".jpg"))

\* C21: once the caller has aborted a publish whose images are still being
\* processed, the handler issues no further remote request for it: the
\* remaining images are abandoned and no product is created.
C21_AbortStopsThePublish ==
    [][ (aborted /\ pc \notin {"idle", "done"}) => requests' = requests ]_vars

\* C22: every publish request completes with exactly one response, success or
\* error, even when remote partners never answer: no response is written
\* before the end, and the end is always reached.
C22_EveryPublishCompletes ==
    /\ [](pc \notin {"idle", "done"} => response = NoResponse)
    /\ [][ (response' # response /\ response' # NoResponse)
               => (pc # "done" /\ pc' = "done") ]_vars
    /\ (Len(inbox) > 0) ~> (pc = "done" /\ response.status \in {200, 400, 500})
    /\ (pc \notin {"idle", "done"}) ~> (pc = "done" /\ response.status \in {200, 500})

C22_Witness ==
    /\ pc = "done"
    /\ silent = Partners
    /\ Len(requests) = 2
    /\ requests[1].kind = "fetch"
    /\ requests[2].kind = "product"
    /\ response.status = 500
    /\ response.message = "Shopify product creation failed: timeout of 30000ms exceeded"

\* the URLs of the uploads of the other publish
PeerUrls == {PeerUrl(n) : n \in 1..MaxImages}

\* every URL of the list was produced by an upload of this publish
OwnUploads(urls) ==
    /\ Len(urls) <= Len(outcomes)
    /\ \A k \in 1..Len(urls) :
          /\ urls[k] \notin PeerUrls
          /\ \E j \in 1..Len(outcomes) : outcomes[j].ok /\ EndsWith(urls[k], ImageTag(j))

\* C23: two publishes running at the same time share no pipeline state: under
\* every interleaving the URL list, the payload and the outcome of this publish
\* hold only URLs of its own uploads, and the list of the other publish only
\* URLs of the other's.
C23_NoSharedPipelineState ==
    /\ OwnUploads(imageUrls)
    /\ \A n \in 1..Len(sent) : OwnUploads(sent[n].images)
    /\ OwnUploads(response.imageUrls)
    /\ \A n \in 1..Len(session.shopifyUploads) :
          \A k \in 1..Len(session.shopifyUploads[n].imageUrls) :
              session.shopifyUploads[n].imageUrls[k] \notin PeerUrls
    /\ \A k \in 1..Len(peerImageUrls) : peerImageUrls[k] = PeerUrl(k)

C23_Witness ==
    /\ pc = "done"
    /\ response.status = 200
    /\ Len(response.imageUrls) = 1
    /\ Len(peerImageUrls) = 2
    /\ peerFilename # ""

\* a request body that the inbound contract refuses
FailsInboundValidation(body) ==
    \/ body.title = ""
    \/ body.description = ""
    \/ body.price < 0
    \/ ~IsURL(body.shopUrl)
    \/ body.accessToken = ""

\* C24: a publish request that fails inbound validation is answered with a
\* 400 validation error at once: no remote request is issued for it and the
\* session log stays as it was.
C24_InvalidRequestsAreRefused ==
    [][ (pc \in {"idle", "done"} /\ Len(inbox) > 0 /\ inbox' = Tail(inbox)
            /\ FailsInboundValidation(Head(inbox)))
          => /\ pc' = "done"
             /\ response'.status = 400
             /\ response'.error = "Validation Error"
             /\ Len(response'.errors) > 0
             /\ requests' = <<>>
             /\ sent' = <<>>
             /\ session'.shopifyUploads = session.shopifyUploads ]_vars

C24_Witness ==
    /\ pc = "done"
    /\ response.status = 400
    /\ req.title = ""
    /\ requests = <<>>
    /\ Len(session.shopifyUploads) = 1

\* C25: an activity route appends exactly one timestamped entry to its own
\* array when its controller call succeeds, leaves every array as it is when
\* the request is rejected or the controller fails, and never touches the
\* array of another activity.
C25_ActivityAppendsOneEntry ==
    [][ activity'.served = activity.served + 1 =>
            LET last == activity'.last
                own  == ArrayOf(last.route)
            IN  /\ \A a \in ActivityArrays \ {own} : activity'.arrays[a] = activity.arrays[a]
                /\ IF last.controller = "ok"
                   THEN /\ Len(activity'.arrays[own]) = Len(activity.arrays[own]) + 1
                        /\ SubSeq(activity'.arrays[own], 1, Len(activity.arrays[own]))
                               = activity.arrays[own]
                        /\ activity'.arrays[own][Len(activity'.arrays[own])].timestamp = now
                   ELSE activity'.arrays[own] = activity.arrays[own] ]_vars

\* C26: a session whose initialized flag is set has its activity arrays, so
\* no activity route fails on a missing array.
C26_InitializedSessionHasArrays ==
    /\ "initialized" \in session.keys => ActivityArrays \subseteq session.keys
    /\ activity.last.error # "Cannot read properties of undefined (reading 'push')"

\* C27: the inventory quantity of the payload is the inventory the caller
\* supplied, 0 included, and 1 only when the caller supplied none.
C27_InventoryAsSupplied ==
    \A n \in 1..Len(sent) :
        IF "inventory" \in req.keys
        THEN sent[n].inventory_quantity = req.inventory
        ELSE sent[n].inventory_quantity = 1

\* C28: the scheme rewrite changes only the leading scheme: a public_url that
\* starts with https:// is kept in every character, the rewrite is idempotent,
\* and the publisher's second application changes nothing.
C28_RewriteOnlyLeadingScheme ==
    LET ok == OkIndices(outcomes)
    IN  /\ Len(imageUrls) = Len(ok)
        /\ \A k \in 1..Len(ok) :
              LET public_url == outcomes[ok[k]].public_url
              IN  /\ StartsWith(public_url, "https://") => imageUrls[k] = public_url
                  /\ HttpsUrl(imageUrls[k]) = imageUrls[k]
        /\ \A n \in 1..Len(sent) : sent[n].images = imageUrls

\* C29: in a successful publish imageCount is the length of the imageUrls
\* returned, and the imageUrls returned and recorded in the session are,
\* element for element, the image URLs sent in the product payload.
C29_ReturnedUrlsAreThePayloadUrls ==
    (pc = "done" /\ response.status = 200)
    => /\ response.imageCount = Len(response.imageUrls)
       /\ response.imageUrls = sent[Len(sent)].images
       /\ session.shopifyUploads[Len(session.shopifyUploads)].imageUrls
              = sent[Len(sent)].images

\* C30: a frontend API wrapper reports failure as a value: whatever the
\* outcome of its HTTP call, its promise resolves and never rejects, a failed
\* call gives success false with an error message, and the request is sent
\* even when the session call of the request interceptor failed.
C30_WrappersResolveWithAValue ==
    /\ client.pc \in {"request", "settled"} => client.sent
    /\ client.pc = "settled"
          => /\ client.result.settled = "resolved"
             /\ HttpFailed(client.outcome)
                   => (~client.result.success /\ client.result.error # "")

C30_Witness ==
    /\ client.pc = "settled"
    /\ client.wrapper = "uploadToShopify"
    /\ client.sessionCheck = "rejected"
    /\ client.outcome.kind = "timeout"
    /\ client.result = Resolved(FALSE, "Network error - please check your connection and server status")

====
